---- MODULE Spec2Model ----
(***************************************************************************)
(* Model of config-vault (src/src/lib.rs): VaultSource, a config Source    *)
(* that reads one secret from HashiCorp Vault's KV1/KV2 HTTP API.          *)
(*                                                                         *)
(* Strings the code takes apart (the address, the mount, the path, the     *)
(* API path) are sequences of one-character strings, so that parsing,      *)
(* splitting and appending are computed character by character.  Opaque    *)
(* strings (token, JSON keys, JSON string values) are TLA+ strings.        *)
(***************************************************************************)
EXTENDS Integers, Sequences, FiniteSets, TLC

VARIABLES
    source,     \* the VaultSource value (its five fields), or NoSource
    created,    \* history: the constructor that made it, "new" or "new_v1"
    last_set,   \* history: the version last given to set_kv_version, or "none"
    pc,         \* position of the collect call: "idle", "built", "received"
    url,        \* local `url` of collect
    response,   \* local `response` of collect
    requests,   \* HTTP requests sent by the collect call in progress / last ended
    decoded,    \* how many times the call decoded a response body as JSON
    outcome     \* what the last collect call gave its caller

vars == <<source, created, last_set, pc, url, response, requests, decoded, outcome>>

-----------------------------------------------------------------------------
(* Bounds of the model *)

\* addresses are tried with 0..MaxSlashes trailing slashes
MaxSlashes == 2

-----------------------------------------------------------------------------
(* Character-sequence helpers *)

Range(s) == {s[i] : i \in 1..Len(s)}

\* position of the first character of s that is in set cs, or Len(s)+1
FirstIn(s, cs) ==
    IF \E i \in 1..Len(s) : s[i] \in cs
    THEN CHOOSE i \in 1..Len(s) : s[i] \in cs /\ \A j \in 1..(i-1) : s[j] \notin cs
    ELSE Len(s) + 1

\* position of the first character of s that is NOT in set cs, or Len(s)+1
FirstNotIn(s, cs) ==
    IF \E i \in 1..Len(s) : s[i] \notin cs
    THEN CHOOSE i \in 1..Len(s) : s[i] \notin cs /\ \A j \in 1..(i-1) : s[j] \in cs
    ELSE Len(s) + 1

From(s, i) == SubSeq(s, i, Len(s))

RECURSIVE Split(_, _)
\* str::split(sep): the pieces between separators, empty pieces included
Split(s, sep) ==
    LET i == FirstIn(s, {sep})
    IN  IF i > Len(s) THEN <<s>>
        ELSE <<SubSeq(s, 1, i-1)>> \o Split(From(s, i+1), sep)

RECURSIVE Repeat(_, _)
Repeat(c, n) == IF n = 0 THEN <<>> ELSE <<c>> \o Repeat(c, n-1)

-----------------------------------------------------------------------------
(* The url crate, as used by build_kv_read_url *)

Alpha == {"a","b","c","d","e","f","g","h","i","j","k","l","m",
          "n","o","p","q","r","s","t","u","v","w","x","y","z"}
Digit == {"0","1","2","3","4","5","6","7","8","9"}

SpecialSchemes == { <<"h","t","t","p">>, <<"h","t","t","p","s">>,
                    <<"w","s">>, <<"w","s","s">>, <<"f","t","p">> }

\* percent-encoding of one character: in a parsed path only the space of the
\* model's alphabet is encoded; a segment set through PathSegmentsMut also has
\* its "/", "?", "#" and "%" encoded
PercentEncode(c, setter) ==
    CASE c = " "            -> <<"%","2","0">>
      [] c = "?" /\ setter  -> <<"%","3","F">>
      [] c = "#" /\ setter  -> <<"%","2","3">>
      [] c = "/" /\ setter  -> <<"%","2","F">>
      [] c = "%" /\ setter  -> <<"%","2","5">>
      [] OTHER              -> <<c>>

RECURSIVE EncodeAll(_, _)
EncodeAll(s, setter) ==
    IF s = <<>> THEN <<>>
    ELSE PercentEncode(Head(s), setter) \o EncodeAll(Tail(s), setter)

NoUrl == [scheme |-> <<>>, host |-> <<>>, path |-> <<>>, after |-> <<>>,
          cannot_be_a_base |-> FALSE]

ParseError == [ok |-> FALSE, url |-> NoUrl]

RECURSIVE DropTrailingSpaces(_)
DropTrailingSpaces(s) ==
    IF s # <<>> /\ s[Len(s)] = " "
    THEN DropTrailingSpaces(SubSeq(s, 1, Len(s)-1)) ELSE s

\* leading and trailing spaces are dropped before parsing
TrimSpaces(s) == DropTrailingSpaces(From(s, FirstNotIn(s, {" "})))

\* Url::parse of an absolute URL string (no base URL is given)
UrlParse(input) ==
    LET s      == TrimSpaces(input)
        colon  == FirstIn(s, {":"})
        scheme == SubSeq(s, 1, colon - 1)
        rest   == From(s, colon + 1)
    IN  IF \/ colon > Len(s)
           \/ scheme = <<>>
           \/ scheme[1] \notin Alpha
           \/ ~(Range(scheme) \subseteq (Alpha \cup Digit \cup {"+", "-", "."}))
        THEN ParseError                       \* relative URL without a base
        ELSE
        IF scheme \in SpecialSchemes
        THEN \* special scheme: any number of slashes, then a non-empty host
             LET auth  == From(rest, FirstNotIn(rest, {"/"}))
                 hend  == FirstIn(auth, {"/", "?", "#"})
                 host  == SubSeq(auth, 1, hend - 1)
                 tail  == From(auth, hend)
                 pend  == FirstIn(tail, {"?", "#"})
                 path  == SubSeq(tail, 1, pend - 1)
             IN  IF host = <<>> \/ " " \in Range(host)
                 THEN ParseError              \* empty host / invalid domain character
                 ELSE [ok |-> TRUE,
                       url |-> [scheme |-> scheme, host |-> host,
                                path |-> IF path = <<>> THEN <<"/">>
                                         ELSE EncodeAll(path, FALSE),
                                after |-> From(tail, pend),
                                cannot_be_a_base |-> FALSE]]
        ELSE
        IF Len(rest) >= 2 /\ rest[1] = "/" /\ rest[2] = "/"
        THEN \* non-special scheme with an authority; the path may be empty
             LET auth  == From(rest, 3)
                 hend  == FirstIn(auth, {"/", "?", "#"})
                 tail  == From(auth, hend)
                 pend  == FirstIn(tail, {"?", "#"})
             IN  IF " " \in Range(SubSeq(auth, 1, hend - 1))
                 THEN ParseError
                 ELSE [ok |-> TRUE,
                       url |-> [scheme |-> scheme, host |-> SubSeq(auth, 1, hend - 1),
                                path |-> EncodeAll(SubSeq(tail, 1, pend - 1), FALSE),
                                after |-> From(tail, pend),
                                cannot_be_a_base |-> FALSE]]
        ELSE
        LET pend == FirstIn(rest, {"?", "#"})
        IN  [ok |-> TRUE,
             url |-> [scheme |-> scheme, host |-> <<>>,
                      path |-> SubSeq(rest, 1, pend - 1),
                      after |-> From(rest, pend),
                      \* a path that does not start with "/" is opaque
                      cannot_be_a_base |-> (rest = <<>> \/ rest[1] # "/")]]

\* Url::path_segments_mut: refused for a URL that cannot be a base
PathSegmentsMutOk(u) == ~u.cannot_be_a_base

\* mutant: the trailing slash is never removed
PopIfEmpty_never(u) == u

\* PathSegmentsMut::pop_if_empty: drops a trailing "/" of the path unless that
\* slash is the path's first character
PopIfEmpty(u) ==
    IF Len(u.path) <= 1 THEN u
    ELSE IF u.path[Len(u.path)] = "/"
         THEN [u EXCEPT !.path = SubSeq(u.path, 1, Len(u.path) - 1)]
         ELSE u

\* one step of PathSegmentsMut::extend: "." and ".." are skipped; a "/" is
\* pushed unless the path is exactly "/"; the segment is percent-encoded
PushSegment(u, segment) ==
    IF segment \in { <<".">>, <<".", ".">> } THEN u
    ELSE LET sep == IF Len(u.path) > 1 \/ Len(u.path) = 0 THEN <<"/">> ELSE <<>>
         IN  [u EXCEPT !.path = u.path \o sep \o EncodeAll(segment, TRUE)]

RECURSIVE Extend(_, _)
\* PathSegmentsMut::extend(segments)
Extend(u, segments) ==
    IF segments = <<>> THEN u
    ELSE Extend(PushSegment(u, Head(segments)), Tail(segments))

\* Url::path_segments: the path without its first "/", split at "/" (nothing
\* for the empty path of a non-special URL)
PathSegments(u) == IF u.path = <<>> THEN <<>> ELSE Split(Tail(u.path), "/")

\* the URL as a string
Serialize(u) ==
    u.scheme \o <<":">>
    \o (IF u.cannot_be_a_base \/ (u.host = <<>> /\ u.scheme \notin SpecialSchemes)
        THEN <<>> ELSE <<"/", "/">>)
    \o u.host \o u.path \o u.after

-----------------------------------------------------------------------------
(* VaultSource *)

V1 == "V1"
V2 == "V2"
KvVersion == {V1, V2}

NoSource == [vault_addr |-> <<>>, vault_token |-> "", vault_mount |-> <<>>,
             vault_path |-> <<>>, kv_version |-> "none"]

\* mutant: the V1 arm formats like the V2 arm
get_api_path_always_data(kv_version, mount, path) ==
    <<"v", "1", "/">> \o mount \o <<"/", "d", "a", "t", "a", "/">> \o path

\* KvVersion::get_api_path: format!("v1/{}/{}") for V1, format!("v1/{}/data/{}")
\* for every other version
get_api_path(kv_version, mount, path) ==
    IF kv_version = V1
    THEN <<"v", "1", "/">> \o mount \o <<"/">> \o path
    ELSE <<"v", "1", "/">> \o mount \o <<"/", "d", "a", "t", "a", "/">> \o path

\* VaultSource::new
new(vault_addr, vault_token, vault_mount, vault_path) ==
    [vault_addr |-> vault_addr, vault_token |-> vault_token,
     vault_mount |-> vault_mount, vault_path |-> vault_path, kv_version |-> V2]

\* VaultSource::new_v1
new_v1(vault_addr, vault_token, vault_mount, vault_path) ==
    [vault_addr |-> vault_addr, vault_token |-> vault_token,
     vault_mount |-> vault_mount, vault_path |-> vault_path, kv_version |-> V1]

\* mutant: the new version is dropped
set_kv_version_ignored(self, kv_version) == self

\* VaultSource::set_kv_version
set_kv_version(self, kv_version) == [self EXCEPT !.kv_version = kv_version]

\* VaultSource::build_kv_read_url: Ok(url), or the ConfigError::Message of the
\* step that failed
build_kv_read_url(self) ==
    LET api_path == get_api_path(self.kv_version, self.vault_mount, self.vault_path)
        parsed   == UrlParse(self.vault_addr)
    IN  IF ~parsed.ok
        THEN [ok |-> FALSE, url |-> NoUrl, error |-> "Invalid Vault address URL"]
        ELSE IF ~PathSegmentsMutOk(parsed.url)
        THEN [ok |-> FALSE, url |-> NoUrl,
              error |-> "Vault address URL cannot be a base"]
        ELSE [ok |-> TRUE,
              url |-> Extend(PopIfEmpty(parsed.url), Split(api_path, "/")),
              error |-> ""]

-----------------------------------------------------------------------------
(* serde_json::Value, as used by collect *)

EmptyObject == [k \in {} |-> 0]

\* a JSON value: its type t, its text s when a string, its members m when an object
JString(x) == [t |-> "string", s |-> x,  m |-> EmptyObject]
JNumber    == [t |-> "number", s |-> "", m |-> EmptyObject]
JNull      == [t |-> "null",   s |-> "", m |-> EmptyObject]
JArray     == [t |-> "array",  s |-> "", m |-> EmptyObject]
JObject(f) == [t |-> "object", s |-> "", m |-> f]

\* Option<&Value>
None    == [some |-> FALSE, v |-> JNull]
Some(x) == [some |-> TRUE,  v |-> x]

\* Value::get(key): the member of an object, None for a missing key or a non-object
Get(x, key) ==
    IF x.t = "object" /\ key \in DOMAIN x.m THEN Some(x.m[key]) ELSE None

\* Value::as_object
AsObject(x) == IF x.t = "object" THEN Some(x) ELSE None

\* Value::as_str
AsStr(x) == IF x.t = "string" THEN [some |-> TRUE, v |-> x.s]
            ELSE [some |-> FALSE, v |-> ""]

\* Option::and_then
AndThen(o, F(_)) == IF o.some THEN F(o.v) ELSE None

-----------------------------------------------------------------------------
(* What the caller of collect gets *)

NoOutcome == [kind |-> "none", map |-> EmptyObject, error |-> "", status |-> 0]
Ok(map)   == [kind |-> "Ok", map |-> map, error |-> "", status |-> 0]
\* ConfigError::Message / ConfigError::Foreign
Err(error, status) ==
    [kind |-> "Err", map |-> EmptyObject, error |-> error, status |-> status]
\* the thread panics: Option::unwrap on None
Panic     == [kind |-> "panic", map |-> EmptyObject, error |-> "", status |-> 0]

\* mutant: redirects count as success
IsSuccess_below400(status) == status >= 200 /\ status < 400

\* StatusCode::is_success
IsSuccess(status) == status >= 200 /\ status < 300

NotJson == [t |-> "invalid", s |-> "", m |-> EmptyObject]

\* mutant: the payload is always looked for under data.data
json_obj_always_nested(kv_version, raw) ==
    AndThen(AndThen(Get(raw, "data"), LAMBDA x : Get(x, "data")), AsObject)

\* collect, lines 228-238: the payload object, by the version's unwrap depth
json_obj(kv_version, raw) ==
    LET Inner(x) == IF kv_version = V2 THEN Get(x, "data") ELSE Some(x)
    IN  AndThen(AndThen(Get(raw, "data"), Inner), AsObject)

\* collect, lines 223-251: what the call returns for a response
parse_response(kv_version, resp) ==
    IF IsSuccess(resp.status)
    THEN IF resp.body = NotJson
         THEN Err("Foreign: json", 0)
         ELSE LET obj == json_obj(kv_version, resp.body)
              IN  IF ~obj.some THEN Panic
                  ELSE IF \E k \in DOMAIN obj.v.m : ~AsStr(obj.v.m[k]).some
                  THEN Panic
                  ELSE Ok([k \in DOMAIN obj.v.m |-> AsStr(obj.v.m[k]).v])
    ELSE Err("Failed to fetch secret from Vault (wrong kv version?)", resp.status)

\* whether collect reads the body of a response as JSON
decodes(resp) == IsSuccess(resp.status)

-----------------------------------------------------------------------------
(* Inputs *)

HttpH == <<"h", "t", "t", "p", ":", "/", "/", "h">>

\* addresses to which trailing slashes are added
BaseAddresses ==
    { HttpH,                                    \* http://h
      HttpH \o <<"/", "a">>,                    \* http://h/a
      HttpH \o <<"?", "q">> }                   \* http://h?q

Addresses ==
    { b \o Repeat("/", n) : b \in BaseAddresses, n \in 0..MaxSlashes }
    \cup { <<"v", ":", "/", "/", "h">>,                        \* v://h
           <<"n", "o", "t", " ", "a", " ", "u", "r", "l">>,   \* not a url
           <<"m", "a", "i", "l", "t", "o", ":", "x">> }       \* mailto:x

Tokens == {"t1", "t2"}
Mounts == { <<"m">> }                                               \* m
Paths  == { <<"a", "/", "b">>, <<"c", " ", "d">>, <<".", ".">> }    \* a/b  "c d"  ..

\* the keys a secret may have
Keys == {"k1", "k2"}

\* values a secret key may have in a response
Leaves == {JString("v1"), JString("v2"), JNumber}

Objects(keys, values) == UNION {[d -> values] : d \in SUBSET keys}

\* payload objects: some keys, each with a leaf
Payloads == {JObject(f) : f \in Objects(Keys, Leaves)}

\* what a response may have under its top-level "data"
UnderData ==
    Payloads
    \cup {JObject([k \in {"data"} |-> p]) : p \in Payloads}
    \cup {JObject([k \in {"data", "metadata"} |->
                    IF k = "data" THEN p ELSE JObject(EmptyObject)]) : p \in Payloads}
    \cup {JObject([k \in {"data"} |-> JString("v1")]),
          JObject([k \in {"k1"} |-> JNull]),
          JObject([k \in {"k1"} |-> JArray]),
          JObject([k \in {"metadata"} |-> JObject(EmptyObject)]),
          JString("v1"), JNull, JArray}

Bodies ==
    {JObject([k \in {"data"} |-> x]) : x \in UnderData}
    \cup {JObject([k \in {"data", "lease_id"} |->
                    IF k = "data" THEN x ELSE JString("")]) : x \in Payloads}
    \cup {JObject(EmptyObject), JObject([k \in {"errors"} |-> JArray]), JArray, NotJson}

Statuses == {200, 301, 403, 404}

NoResponse == [status |-> 0, body |-> NotJson]

-----------------------------------------------------------------------------
(* Operations *)

Init ==
    /\ source = NoSource
    /\ created = "none"
    /\ last_set = "none"
    /\ pc = "idle"
    /\ url = NoUrl
    /\ response = NoResponse
    /\ requests = <<>>
    /\ decoded = 0
    /\ outcome = NoOutcome

\* the caller makes the source with VaultSource::new
New(vault_addr, vault_token, vault_mount, vault_path) ==
    /\ source = NoSource
    /\ source' = new(vault_addr, vault_token, vault_mount, vault_path)
    /\ created' = "new"
    /\ UNCHANGED <<last_set, pc, url, response, requests, decoded, outcome>>

\* the caller makes the source with VaultSource::new_v1
NewV1(vault_addr, vault_token, vault_mount, vault_path) ==
    /\ source = NoSource
    /\ source' = new_v1(vault_addr, vault_token, vault_mount, vault_path)
    /\ created' = "new_v1"
    /\ UNCHANGED <<last_set, pc, url, response, requests, decoded, outcome>>

\* set_kv_version takes &mut self: no collect call is in progress.  What is
\* left of the last call (its locals, the result its caller has taken) is gone.
SetKvVersion(kv_version) ==
    /\ source # NoSource
    /\ pc = "idle"
    /\ source' = set_kv_version(source, kv_version)
    /\ last_set' = kv_version
    /\ url' = NoUrl
    /\ response' = NoResponse
    /\ requests' = <<>>
    /\ decoded' = 0
    /\ outcome' = NoOutcome
    /\ UNCHANGED <<created, pc>>

\* mutant: the call goes on to the request whatever the URL builder returned
CollectBuildUrl_no_return ==
    /\ source # NoSource
    /\ pc = "idle"
    /\ url' = build_kv_read_url(source).url
    /\ pc' = "built"
    /\ outcome' = NoOutcome
    /\ response' = NoResponse
    /\ requests' = <<>>
    /\ decoded' = 0
    /\ UNCHANGED <<source, created, last_set>>

\* collect, line 214: a new call starts and builds the URL; `?` returns the error
CollectBuildUrl ==
    /\ source # NoSource
    /\ pc = "idle"
    /\ LET built == build_kv_read_url(source)
       IN  /\ url' = built.url
           /\ IF built.ok
              THEN pc' = "built" /\ outcome' = NoOutcome
              ELSE pc' = "idle" /\ outcome' = Err(built.error, 0)
    /\ response' = NoResponse
    /\ requests' = <<>>
    /\ decoded' = 0
    /\ UNCHANGED <<source, created, last_set>>

\* the request collect sends, lines 217-220
request(self, u) ==
    [method |-> "GET", url |-> u, header |-> "X-Vault-Token",
     value |-> self.vault_token]

\* collect, lines 216-221: the GET is sent; the server answers
CollectSend(status, body) ==
    /\ pc = "built"
    /\ requests' = Append(requests, request(source, url))
    /\ response' = [status |-> status, body |-> body]
    /\ pc' = "received"
    /\ UNCHANGED <<source, created, last_set, url, decoded, outcome>>

\* mutant: a failed GET is tried again
CollectSendFails_retry ==
    /\ pc = "built"
    /\ requests' = Append(requests, request(source, url))
    /\ UNCHANGED <<source, created, last_set, pc, url, response, decoded, outcome>>

\* collect, lines 216-221: the GET is sent and fails in transport
CollectSendFails ==
    /\ pc = "built"
    /\ requests' = Append(requests, request(source, url))
    /\ outcome' = Err("Foreign: send", 0)
    /\ pc' = "idle"
    /\ UNCHANGED <<source, created, last_set, url, response, decoded>>

\* collect, lines 223-251: the response is turned into the call's result
CollectParse ==
    /\ pc = "received"
    /\ decoded' = IF decodes(response) THEN decoded + 1 ELSE decoded
    /\ outcome' = parse_response(source.kv_version, response)
    /\ pc' = "idle"
    /\ UNCHANGED <<source, created, last_set, url, response, requests>>

Next ==
    \/ \E a \in Addresses, t \in Tokens, m \in Mounts, p \in Paths : New(a, t, m, p)
    \/ \E a \in Addresses, t \in Tokens, m \in Mounts, p \in Paths : NewV1(a, t, m, p)
    \/ \E v \in KvVersion : SetKvVersion(v)
    \/ CollectBuildUrl
    \/ \E st \in Statuses, b \in Bodies : CollectSend(st, b)
    \/ CollectSendFails
    \/ CollectParse

Spec == Init /\ [][Next]_vars

-----------------------------------------------------------------------------
(* Properties *)

\* a collect call has ended and its result is with the caller
Finished == pc = "idle" /\ outcome # NoOutcome

\* a mount or path whose "/"-separated components are plain names: letters,
\* digits, "-" and "_", and not empty
PlainName(seg) ==
    /\ seg # <<>>
    /\ Range(seg) \subseteq (Alpha \cup Digit \cup {"-", "_"})
PlainNames(s) == \A i \in 1..Len(Split(s, "/")) : PlainName(Split(s, "/")[i])

\* the suffix v1/{mount}/data/{path} or v1/{mount}/{path}, as segments
SuffixSegments(kv_version, mount, path) ==
    << <<"v", "1">> >> \o Split(mount, "/")
    \o (IF kv_version = V2 THEN << <<"d", "a", "t", "a">> >> ELSE <<>>)
    \o Split(path, "/")

\* C1: for a valid address, mount and path, the built URL's path ends with the
\* segments v1/{mount}/data/{path} (V2) or v1/{mount}/{path} (V1), and what
\* precedes them are the address's own leading path segments, in order.
C1_UrlEndsWithApiPath ==
    (pc # "idle" /\ PlainNames(source.vault_mount) /\ PlainNames(source.vault_path))
    => LET segs == PathSegments(url)
           suf  == SuffixSegments(source.kv_version, source.vault_mount,
                                  source.vault_path)
           base == PathSegments(UrlParse(source.vault_addr).url)
           n    == Len(segs) - Len(suf)
       IN  /\ n >= 0
           /\ n <= Len(base)
           /\ SubSeq(segs, n + 1, Len(segs)) = suf
           /\ SubSeq(segs, 1, n) = SubSeq(base, 1, n)

\* a V1 URL built on an address that has a path segment of its own
C1_Witness ==
    /\ pc = "built"
    /\ PlainNames(source.vault_mount) /\ PlainNames(source.vault_path)
    /\ source.kv_version = V1
    /\ PathSegments(url) = << <<"a">>, <<"v", "1">>, <<"m">>, <<"a">>, <<"b">> >>

EndsWith(s, t) == Len(s) >= Len(t) /\ SubSeq(s, Len(s) - Len(t) + 1, Len(s)) = t

\* the URL the source would build from another address
UrlFrom(addr) == build_kv_read_url([source EXCEPT !.vault_addr = addr]).url

\* C2 as stated: an address without a trailing slash and the same address
\* followed by "/" build the same URL, and an address ending in two slashes
\* keeps one empty segment in front of the API suffix.
C2_AsStated ==
    pc = "built" =>
        LET A    == source.vault_addr
            base == PathSegments(UrlParse(A).url)
        IN  /\ ~EndsWith(A, <<"/">>) => UrlFrom(A \o <<"/">>) = url
            /\ EndsWith(A, <<"/", "/">>) =>
                   PathSegments(url)
                     = SubSeq(base, 1, Len(base) - 1) \o PathSegments(UrlFrom(HttpH))

\* C2 (amended): for an address without query or fragment, the address and the
\* address followed by "/" build the same URL; an address ending in two slashes
\* loses one empty segment and keeps the other in front of the API suffix,
\* unless its path is exactly "//": then no empty segment is kept.
C2_TrailingSlash ==
    (pc = "built" /\ UrlParse(source.vault_addr).url.after = <<>>) =>
        LET A    == source.vault_addr
            base == PathSegments(UrlParse(A).url)
        IN  /\ ~EndsWith(A, <<"/">>) => UrlFrom(A \o <<"/">>) = url
            /\ EndsWith(A, <<"/", "/">>) =>
                   PathSegments(url)
                     = (IF UrlParse(A).url.path = <<"/", "/">> THEN <<>>
                        ELSE SubSeq(base, 1, Len(base) - 1))
                       \o PathSegments(UrlFrom(HttpH))

\* http://h/a// keeps one empty segment: a, "", v1, ...
C2_Witness ==
    /\ pc = "built"
    /\ source.vault_addr = HttpH \o <<"/", "a", "/", "/">>
    /\ Len(PathSegments(url)) >= 3
    /\ PathSegments(url)[1] = <<"a">>
    /\ PathSegments(url)[2] = <<>>
    /\ PathSegments(url)[3] = <<"v", "1">>

-----------------------------------------------------------------------------
(* The response parser *)

\* the call got a 2xx response whose body is JSON
GotJson == Finished /\ response.status \in 200..299 /\ response.body # NotJson

IsObject(x) == x.t = "object"
AllStrings(x) == \A k \in DOMAIN x.m : x.m[k].t = "string"
Has(x, key) == IsObject(x) /\ key \in DOMAIN x.m

\* {"data": {k: string, ...}}
V1Envelope(b) ==
    Has(b, "data") /\ IsObject(b.m["data"]) /\ AllStrings(b.m["data"])

\* {"data": {"data": {k: string, ...}, ...}}
V2Envelope(b) ==
    /\ Has(b, "data") /\ Has(b.m["data"], "data")
    /\ IsObject(b.m["data"].m["data"]) /\ AllStrings(b.m["data"].m["data"])

\* the payload object is where the version expects it
PayloadPresent(kv_version, b) ==
    /\ Has(b, "data")
    /\ IF kv_version = V2
       THEN Has(b.m["data"], "data") /\ IsObject(b.m["data"].m["data"])
       ELSE IsObject(b.m["data"])

ThePayload(kv_version, b) ==
    IF kv_version = V2 THEN b.m["data"].m["data"] ELSE b.m["data"]

\* C3: a payload value that is not a JSON string ends the fetch with the typed
\* error UnsupportedValueType (and neither a crash nor a mapping).
C3_UnsupportedValueType ==
    (/\ GotJson
     /\ PayloadPresent(source.kv_version, response.body)
     /\ ~AllStrings(ThePayload(source.kv_version, response.body)))
    => (outcome.kind = "Err" /\ outcome.error = "UnsupportedValueType")

\* C4: a response of the other version's shape ends the fetch with MissingPayload.
C4_WrongVersionMissingPayload ==
    (/\ GotJson
     /\ \/ source.kv_version = V1 /\ V2Envelope(response.body)
        \/ source.kv_version = V2 /\ V1Envelope(response.body))
    => (outcome.kind = "Err" /\ outcome.error = "MissingPayload")

\* C5: a 2xx JSON response without the expected key, or with a non-object
\* there, ends the fetch with the typed error MissingPayload, not with a crash.
C5_MissingPayload ==
    (GotJson /\ ~PayloadPresent(source.kv_version, response.body))
    => (outcome.kind = "Err" /\ outcome.error = "MissingPayload")

\* C6: a response whose status is outside 2xx ends the fetch with an error that
\* carries the status code, and its body is never decoded.
C6_RemoteError ==
    (Finished /\ response # NoResponse /\ response.status \notin 200..299)
    => /\ outcome.kind = "Err"
       /\ outcome.status = response.status
       /\ decoded = 0

C6_Witness ==
    /\ Finished
    /\ response.status = 403
    /\ response.body # NotJson
    /\ outcome = Err("Failed to fetch secret from Vault (wrong kv version?)", 403)

NotAUrl == <<"n", "o", "t", " ", "a", " ", "u", "r", "l">>
MailtoX == <<"m", "a", "i", "l", "t", "o", ":", "x">>

\* C7: an address that is no URL, or no hierarchical one, ends the fetch with
\* the address error and without a request; a request is sent only once the
\* URL has been built.
C7_NoRequestBeforeUrl ==
    /\ (Finished /\ source.vault_addr = NotAUrl)
          => (outcome = Err("Invalid Vault address URL", 0) /\ requests = <<>>)
    /\ (Finished /\ source.vault_addr = MailtoX)
          => (outcome = Err("Vault address URL cannot be a base", 0)
              /\ requests = <<>>)
    /\ outcome.error \in {"Invalid Vault address URL",
                          "Vault address URL cannot be a base"}
          => requests = <<>>
    /\ requests # <<>>
          => /\ source.vault_addr \notin {NotAUrl, MailtoX}
             /\ url # NoUrl
             /\ \A i \in 1..Len(requests) : requests[i].url = url

C7_Witness ==
    /\ Finished
    /\ source.vault_addr = NotAUrl
    /\ outcome = Err("Invalid Vault address URL", 0)
    /\ requests = <<>>

\* C8: a 2xx response whose payload object has only string values gives a
\* mapping with exactly the payload's keys, each with its string; the rest of
\* the envelope is ignored and an empty payload gives an empty mapping.
C8_FlatStringMap ==
    (/\ GotJson
     /\ PayloadPresent(source.kv_version, response.body)
     /\ AllStrings(ThePayload(source.kv_version, response.body)))
    => LET payload == ThePayload(source.kv_version, response.body).m
       IN  /\ outcome.kind = "Ok"
           /\ DOMAIN outcome.map = DOMAIN payload
           /\ \A k \in DOMAIN payload : outcome.map[k] = payload[k].s

\* a V1 response with two secrets and another envelope field
C8_Witness ==
    /\ GotJson
    /\ source.kv_version = V1
    /\ DOMAIN response.body.m = {"data", "lease_id"}
    /\ outcome.kind = "Ok"
    /\ DOMAIN outcome.map = {"k1", "k2"}
    /\ outcome.map["k1"] = "v1" /\ outcome.map["k2"] = "v2"

\* C9 (state part): at most one GET per call, none before the URL is built and
\* exactly one once it is sent; it goes to the built URL with X-Vault-Token set to the token;
\* the body is decoded at most once.
C9_State ==
    /\ Len(requests) <= 1
    /\ \A i \in 1..Len(requests) :
          requests[i] = [method |-> "GET", url |-> url, header |-> "X-Vault-Token",
                         value |-> source.vault_token]
    /\ pc = "built" => (requests = <<>> /\ outcome = NoOutcome)
    /\ pc = "received" => (Len(requests) = 1 /\ outcome = NoOutcome /\ decoded = 0)
    /\ (Finished /\ UrlParse(source.vault_addr).ok
          /\ ~UrlParse(source.vault_addr).url.cannot_be_a_base)
          => Len(requests) = 1
    /\ decoded <= 1

\* C9 (step part): build URL, fetch, parse, return, in this order and never back
C9_Step ==
    /\ (pc = "idle" /\ pc' # "idle") => (pc' = "built" /\ requests' = <<>>)
    /\ pc = "built" => pc' \in {"received", "idle"}
    /\ pc = "received" => pc' = "idle"
    /\ (pc # "idle" /\ pc' = "idle") => outcome' # NoOutcome
    /\ Len(requests') > Len(requests) => pc = "built"

LastVersion ==
    IF last_set # "none" THEN last_set
    ELSE IF created = "new" THEN V2 ELSE V1

HasDataSegment(u) ==
    \E i \in 1..Len(PathSegments(u)) : PathSegments(u)[i] = <<"d", "a", "t", "a">>

C10_State ==
    source # NoSource =>
        /\ source.kv_version = LastVersion
        /\ pc # "idle" => (HasDataSegment(url) <=> LastVersion = V2)
        /\ (GotJson /\ outcome.kind = "Ok") =>
              /\ PayloadPresent(LastVersion, response.body)
              /\ DOMAIN outcome.map = DOMAIN ThePayload(LastVersion, response.body).m

C10_Step ==
    /\ source # NoSource =>
          /\ source'.vault_addr = source.vault_addr
          /\ source'.vault_token = source.vault_token
          /\ source'.vault_mount = source.vault_mount
          /\ source'.vault_path = source.vault_path
    /\ (pc # "idle" \/ pc' # "idle" \/ outcome' # NoOutcome) => source' = source

\* C10: new gives V2 and new_v1 gives V1; set_kv_version changes kv_version
\* only; a fetch uses the version last set, for the URL and for the unwrap
\* depth, and changes no field of the source.
C10_VersionAndFrame == []C10_State /\ [][C10_Step]_vars

\* made by new (V2), set to V1, then a V1 response read
C10_Witness ==
    /\ created = "new"
    /\ last_set = V1
    /\ GotJson
    /\ outcome.kind = "Ok"
    /\ DOMAIN outcome.map = {"k1"}
    /\ ~HasDataSegment(url)

====
